---- MODULE Spec2Model ----
(***************************************************************************)
(* A model of gcra-rs: the GCRA decision function over a single            *)
(* theoretical-arrival-time, the single-owner RateLimitGuard that drives   *)
(* it, and the sharded RateLimiter that applies it per key.                *)
(*                                                                         *)
(* Instants and Durations are integers counted in one time unit.           *)
(* Option<T> is a sequence of length 0 (None) or 1 (Some(v)).              *)
(***************************************************************************)
EXTENDS Integers, Sequences, FiniteSets, TLC

\* ---------------------------------------------------------------- bounds
MaxLimit == 3
MaxPeriod == 4
MaxTime == 5
MaxCost == 4
MaxCallers == 3
NumKeys == 2
MaxShards == 2
MaxCapacity == 2
MaxLimiterCost == 2
MaxClock == 2
MaxLimiterLimit == 2
MaxLimiterPeriod == 3
MaxGcraLimit == 3
MaxGcraPeriod == 5
MaxGcraTime == 3
MaxGcraCost == 4

\* ---------------------------------------------------------------- Option
None == << >>
Some(v) == << v >>
IsSome(o) == Len(o) = 1
Unwrap(o) == o[1]

\* ------------------------------------------------------------- RateLimit
\* RateLimit::new: emission_interval = period / resource_limit (truncating)
RateLimit_new(resource_limit, period) ==
    [resource_limit |-> resource_limit,
     period |-> period,
     emission_interval |-> period \div resource_limit]

\* RateLimit::increment_interval
increment_interval(rl, cost) == rl.emission_interval * cost

\* The RateLimit values the model draws from
RateLimits ==
    { RateLimit_new(n, p) : n \in 1..MaxLimit, p \in 1..MaxPeriod }

\* ------------------------------------------------------------- GcraError
Ok == [kind |-> "Ok"]
DeniedUntil(n) == [kind |-> "DeniedUntil", next_allowed_at |-> n]
DeniedIndefinitely(c, rl) ==
    [kind |-> "DeniedIndefinitely", cost |-> c, rate_limit |-> rl]
NoResult == [kind |-> "NoResult"]

IsDenied(r) == r.kind \in {"DeniedUntil", "DeniedIndefinitely"}

\* ------------------------------------------------------------- Gcra core
\* compute_tat without its structural check
compute_tat_unchecked(rl, cost, new_tat) ==
    [ok |-> TRUE, err |-> Ok, tat |-> new_tat + increment_interval(rl, cost)]

\* the closure compute_tat of check_and_modify_at
compute_tat(rl, cost, new_tat) ==
    IF increment_interval(rl, cost) > rl.period
    THEN [ok |-> FALSE, err |-> DeniedIndefinitely(cost, rl), tat |-> 0]
    ELSE [ok |-> TRUE, err |-> Ok, tat |-> new_tat + increment_interval(rl, cost)]

\* the older of the two instants
Older(a, b) == IF a <= b THEN a ELSE b

Max(a, b) == IF a >= b THEN a ELSE b

Min(a, b) == IF a <= b THEN a ELSE b

\* the denied arm reporting an instant one time unit too early
denied_until_early(self_tat, new_tat, next_allowed_at) ==
    [tat |-> self_tat, result |-> DeniedUntil(next_allowed_at - 1)]

\* the tolerance taken to be one emission interval
next_allowed_at_one_interval(rl, new_tat) == new_tat - rl.emission_interval

\* line 80: let next_allowed_at = new_tat - delay_variation_tolerance
next_allowed_at_of(rl, new_tat) == new_tat - rl.period

\* the denied arm assigning the advanced tat before it returns the error
denied_until_assigning(self_tat, new_tat, next_allowed_at) ==
    [tat |-> Some(new_tat), result |-> DeniedUntil(next_allowed_at)]

\* lines 84-87: the denied arm returns the error and assigns nothing
denied_until(self_tat, new_tat, next_allowed_at) ==
    [tat |-> self_tat, result |-> DeniedUntil(next_allowed_at)]

\* the `?` on compute_tat: the error is returned before any assignment
denied_indefinitely(self_tat, err) == [tat |-> self_tat, result |-> err]

\* GcraState::check_and_modify_at: the state after the call and its result
check_and_modify_at(self_tat, rl, arrived_at, cost) ==
    IF ~IsSome(self_tat)
    THEN \* First ever request
         LET r == compute_tat(rl, cost, arrived_at) IN
         IF r.ok THEN [tat |-> Some(r.tat), result |-> Ok]
                 ELSE denied_indefinitely(self_tat, r.err)
    ELSE LET tat_ == Unwrap(self_tat) IN
         IF tat_ < arrived_at
         THEN \* prev request was really old
              LET r == compute_tat(rl, cost, Max(tat_, arrived_at)) IN
              IF r.ok THEN [tat |-> Some(r.tat), result |-> Ok]
                      ELSE denied_indefinitely(self_tat, r.err)
         ELSE \* prev request was recent
              LET r == compute_tat(rl, cost, tat_) IN
              IF ~r.ok THEN denied_indefinitely(self_tat, r.err)
              ELSE LET next_allowed_at == next_allowed_at_of(rl, r.tat) IN
                   IF next_allowed_at < arrived_at
                   THEN [tat |-> Some(r.tat), result |-> Ok]
                   ELSE denied_until(self_tat, r.tat, next_allowed_at)

\* ------------------------------------------------- remaining_resources
\* the position of the highest set bit of n >= 1
RECURSIVE Log2(_)
Log2(n) == IF n <= 1 THEN 0 ELSE 1 + Log2(n \div 2)

\* a count of nanoseconds converted to f32: the nearest value with 24
\* significant bits, a tie going to the even one
f32(n) ==
    IF n < 2^24 THEN n
    ELSE LET ulp == 2^(Log2(n) - 23)
             q == n \div ulp
             r == n % ulp
         IN  IF 2 * r > ulp \/ (2 * r = ulp /\ q % 2 = 1)
             THEN (q + 1) * ulp
             ELSE q * ulp

\* ceil() of the f32 quotient a / b of two f32 values, b > 0: a quotient
\* within half an ulp above the integer k is rounded to k before ceil()
ceil_div_f32(a, b) ==
    LET k == a \div b
        r == a % b
    IN  IF k >= 2^24
        THEN \* the quotient itself has more than 24 bits
             LET ulp == 2^(Log2(k) - 23)
                 q == k \div ulp
                 m == k % ulp
             IN  IF 2 * m > ulp \/ (2 * m = ulp /\ (r > 0 \/ q % 2 = 1))
                 THEN (q + 1) * ulp
                 ELSE q * ulp
        ELSE IF k >= 2^23
        THEN IF 2 * r > b \/ (2 * r = b /\ k % 2 = 1) THEN k + 1 ELSE k
        ELSE IF r = 0 THEN k
        ELSE IF k = 0 THEN 1
        ELSE IF r <= b \div 2^(24 - Log2(k)) THEN k
        ELSE k + 1

\* line 104: (time_to_tat * resource_limit).div_duration_f32(period).ceil()
consumed_resources(rl, time_to_tat) ==
    ceil_div_f32(f32(time_to_tat * rl.resource_limit), f32(rl.period))

Remaining(n) == [kind |-> "Remaining", value |-> n]
\* resource_limit - consumed below zero in u32: a build with overflow checks
\* panics, a build without them returns 2^32 - deficit
SubtractOverflow == [kind |-> "Panic"]
Wrapped(deficit) == [kind |-> "Wrapped", deficit |-> deficit]

\* GcraState::remaining_resources: the outcomes the builds can produce
remaining_resources(self_tat, rl, now) ==
    IF rl.period = 0 THEN { Remaining(0) }
    ELSE IF ~IsSome(self_tat) \/ Unwrap(self_tat) < now
    THEN { Remaining(rl.resource_limit) }
    ELSE LET consumed == consumed_resources(rl, Unwrap(self_tat) - now) IN
         IF consumed <= rl.resource_limit
         THEN { Remaining(rl.resource_limit - consumed) }
         ELSE { SubtractOverflow, Wrapped(consumed - rl.resource_limit) }

\* ------------------------------------------------------------ revert_at
\* the revert without its floor at now
revert_at_unclamped(self_tat, rl, now, cost) ==
    IF ~IsSome(self_tat) THEN { [tat |-> None, result |-> Ok] }
    ELSE { [tat |-> Some(Unwrap(self_tat) - increment_interval(rl, cost)),
            result |-> Ok] }

\* GcraState::revert_at, called by RateLimitGuard::revert: tat moves back by
\* increment_interval(cost), never to before now; a value that would precede
\* now becomes unset or now; an unset tat has nothing to give back
revert_at(self_tat, rl, now, cost) ==
    IF ~IsSome(self_tat) THEN { [tat |-> None, result |-> Ok] }
    ELSE LET reverted == Unwrap(self_tat) - increment_interval(rl, cost) IN
         IF reverted < now
         THEN { [tat |-> None, result |-> Ok],
                [tat |-> Some(now), result |-> Ok] }
         ELSE { [tat |-> Some(reverted), result |-> Ok] }

\* ------------------------------------------------ RateLimitGuard (state)
VARIABLES
    rate_limit,   \* RateLimitGuard.rate_limit
    state,        \* RateLimitGuard.state.tat : Option<Instant>
    last,         \* the last check_and_modify call: inputs, state before, result
    burst,        \* unit-cost checks made at one instant since the unset state
    denied,       \* cost -> Option(next_allowed_at) of the DeniedUntil results
                  \* returned since the last admission
    credit,       \* units admitted since the instant t0 at which the bucket
                  \* last started filling from unset or drained
    full,         \* Option(t0): resource_limit units were admitted since t0
                  \* and the next unit-cost check was denied
    recovered,    \* Option(t): the bucket observed full at t0 admitted one
                  \* unit-cost check at t = t0 + emission_interval
    call,         \* the last call made on the Gcra core directly: the
                  \* operation, its inputs, the tat before it and its outcome
    window        \* the earliest and the latest arrival time of the checks
                  \* made on the core and the increments of the admitted ones

guard_vars ==
    << rate_limit, state, last, burst, credit, denied, full, recovered,
       call, window >>

Costs == 0..MaxCost
Instants == 0..MaxTime

NoCall ==
    [arrived_at |-> 0, cost |-> 0, pre |-> None, result |-> NoResult,
     denied_before |-> None, full_before |-> None, recovered_before |-> None]

NoBurst == [t0 |-> None, n |-> 0]

\* no check made on the core yet
NoWindow == [lo |-> None, hi |-> None, sum |-> 0]

\* no call made on the core yet
NoGcraCall ==
    [op |-> "none", limit |-> << >>, now |-> 0, cost |-> 0, pre |-> None,
     out |-> NoResult, rem |-> None, undo |-> FALSE, mono |-> None]

NoCredit == [t0 |-> None, units |-> 0]

\* RateLimitGuard::new(clock, rate_limit, state): any RateLimit, any state
\* (GcraState::default() is tat = None)
InitGuard ==
    /\ rate_limit \in RateLimits
    /\ state \in {None} \cup { Some(t) : t \in Instants }
    /\ last = NoCall
    /\ burst = NoBurst
    /\ credit = NoCredit
    /\ denied = [c \in Costs |-> None]
    /\ full = None
    /\ recovered = None
    /\ call = NoGcraCall
    /\ window = NoWindow

\* The observers' updates for a call (arrived_at, cost) with outcome out
burst_after(arrived_at, cost, out) ==
    IF cost = 1 /\ ~IsSome(state) THEN [t0 |-> Some(arrived_at), n |-> 1]
    ELSE IF /\ cost = 1
            /\ burst.t0 = Some(arrived_at)
            /\ burst.n <= rate_limit.resource_limit
         THEN [burst EXCEPT !.n = @ + 1]
         ELSE NoBurst

denied_after(cost, out) ==
    IF out.result.kind = "Ok" THEN [c \in Costs |-> None]
    ELSE IF out.result.kind = "DeniedUntil"
         THEN [denied EXCEPT ![cost] = Some(out.result.next_allowed_at)]
         ELSE denied

credit_after(arrived_at, cost, out) ==
    IF out.result.kind # "Ok" THEN credit
    ELSE IF ~IsSome(state) \/ Unwrap(state) < arrived_at
         THEN [t0 |-> Some(arrived_at), units |-> cost]
         ELSE IF IsSome(credit.t0)
              THEN \* counted up to resource_limit + 1, "more than the limit"
                   [credit EXCEPT
                      !.units = Min(@ + cost, rate_limit.resource_limit + 1)]
              ELSE NoCredit

full_after(arrived_at, cost, out) ==
    IF out.result.kind = "Ok" THEN None
    ELSE IF /\ out.result.kind = "DeniedUntil"
            /\ cost = 1
            /\ IsSome(credit.t0)
            /\ credit.units = rate_limit.resource_limit
         THEN credit.t0
         ELSE full

recovered_after(arrived_at, cost, out) ==
    IF out.result.kind = "Ok"
    THEN IF /\ cost = 1
            /\ IsSome(full)
            /\ arrived_at = Unwrap(full) + rate_limit.emission_interval
         THEN Some(arrived_at)
         ELSE None
    ELSE recovered

\* RateLimitGuard::check_and_modify(cost) with clock.now() = arrived_at
GuardCheckAndModify(arrived_at, cost) ==
    LET out == check_and_modify_at(state, rate_limit, arrived_at, cost) IN
    /\ state' = out.tat
    /\ last' = [arrived_at |-> arrived_at, cost |-> cost, pre |-> state,
                result |-> out.result,
                denied_before |-> denied[cost],
                full_before |-> full,
                recovered_before |-> recovered]
    /\ burst' = burst_after(arrived_at, cost, out)
    /\ credit' = credit_after(arrived_at, cost, out)
    /\ denied' = denied_after(cost, out)
    /\ full' = full_after(arrived_at, cost, out)
    /\ recovered' = recovered_after(arrived_at, cost, out)
    /\ UNCHANGED << rate_limit, call, window >>

\* ------------------------------------------------------ RateLimiter state
VARIABLES
    clock,              \* Instant::now(), shared by the callers and the store
    num_shards,         \* RateLimiter::new(_, num_shards)
    max_data_capacity,  \* RateLimiter::new(max_data_capacity, _)
    upstream_fails,     \* whether the store's upstream may reject a load/commit
    callers,            \* the concurrent check/check_at calls, one per caller
    entries,            \* key -> the store's slot for the key's RateLimitEntry
    lru,                \* shard -> its resident keys, least recently used first
    tickets,            \* number of requests accepted by the shards so far
    executed,           \* key -> callers whose closure ran on the key's
                        \* current entry, in the order the closures ran
    solo,               \* key -> the tat the key has in the run that contains
                        \* only the checks on that key
    evicted,            \* key -> the entry was dropped under capacity pressure
    expired             \* key -> the entry was dropped after its expires_at

limiter_vars ==
    << clock, num_shards, max_data_capacity, upstream_fails, callers,
       entries, lru, tickets, executed, solo, evicted, expired >>

vars == << guard_vars, limiter_vars >>

Callers == 1..MaxCallers
Keys == 1..NumKeys
Shards == 1..MaxShards
LimiterCosts == 1..MaxLimiterCost
ClockInstants == 0..MaxClock

\* the RateLimit values the limiter's callers pass: a period of at least
\* one time unit per resource
LimiterRateLimits ==
    { rl \in { RateLimit_new(n, p) :
                  n \in 1..MaxLimiterLimit, p \in 1..MaxLimiterPeriod } :
        rl.period >= rl.resource_limit }

\* the shard a key hashes to
ShardOf(key) == (key % num_shards) + 1

\* RateLimitEntry::default()
DefaultEntry == [gcra_state |-> None, expires_at |-> None]

Absent == [status |-> "absent", entry |-> DefaultEntry, waiting |-> << >>]

IdleCaller ==
    [pc |-> "idle", key |-> 1, cost |-> 0, arrived_at |-> 0, ticket |-> 0,
     value |-> NoResult, expected |-> NoResult, result |-> NoResult,
     commits |-> 0, loads |-> 0, failed |-> FALSE]

\* the limiter before any check: RateLimiter::new(max_data_capacity, num_shards)
LimiterIdle ==
    /\ clock = 0
    /\ callers = [c \in Callers |-> IdleCaller]
    /\ entries = [k \in Keys |-> Absent]
    /\ lru = [s \in Shards |-> << >>]
    /\ tickets = 0
    /\ executed = [k \in Keys |-> << >>]
    /\ solo = [k \in Keys |-> None]
    /\ evicted = [k \in Keys |-> FALSE]
    /\ expired = [k \in Keys |-> FALSE]

\* the guard before any call, with an unset state
GuardIdle ==
    /\ state = None
    /\ last = NoCall
    /\ burst = NoBurst
    /\ credit = NoCredit
    /\ denied = [c \in Costs |-> None]
    /\ full = None
    /\ recovered = None
    /\ call = NoGcraCall
    /\ window = NoWindow

\* ------------------------------------------------------- RateLimitEntry
\* the refresh reading the clock whatever tat is
update_expiration_from_clock(entry, rl, now) ==
    [entry EXCEPT !.expires_at = Some(now + rl.period)]

\* RateLimitEntry::update_expiration
update_expiration(entry, rl, now) ==
    [entry EXCEPT !.expires_at =
        Some((IF IsSome(entry.gcra_state) THEN Unwrap(entry.gcra_state)
                                          ELSE now) + rl.period)]

\* ---------------------------------------------------------- RateLimiter
\* the closure working on a copy of the entry: its update is lost
check_at_closure_on_copy(entry, rl, arrived_at, cost, now) ==
    LET out == check_and_modify_at(entry.gcra_state, rl, arrived_at, cost)
    IN  IF out.result.kind = "Ok"
        THEN [entry |-> entry, commit |-> "immediately", value |-> out.result]
        ELSE [entry |-> entry, commit |-> "noop", value |-> out.result]

\* the closure asking for a commit whatever the decision is
check_at_closure_always_commits(entry, rl, arrived_at, cost, now) ==
    LET out == check_and_modify_at(entry.gcra_state, rl, arrived_at, cost)
        checked == [entry EXCEPT !.gcra_state = out.tat]
    IN  IF out.result.kind = "Ok"
        THEN [entry |-> update_expiration(checked, rl, now),
              commit |-> "immediately", value |-> out.result]
        ELSE [entry |-> checked, commit |-> "immediately",
              value |-> out.result]

\* the closure check_at hands to execute_mut: the entry it leaves, the
\* value it returns and the commit it asks for
check_at_closure(entry, rl, arrived_at, cost, now) ==
    LET out == check_and_modify_at(entry.gcra_state, rl, arrived_at, cost)
        checked == [entry EXCEPT !.gcra_state = out.tat]
    IN  IF out.result.kind = "Ok"
        THEN [entry |-> update_expiration(checked, rl, now),
              commit |-> "immediately", value |-> out.result]
        ELSE [entry |-> checked, commit |-> "noop", value |-> out.result]

\* execute_mut's outcomes
Executed(value) == [ok |-> TRUE, value |-> value]
ShardFailed == [ok |-> FALSE, value |-> NoResult]

\* check_at swallowing the shard's error
check_at_return_swallowing(r) ==
    IF ~r.ok THEN [kind |-> "Ok"]
    ELSE IF r.value.kind = "Ok" THEN [kind |-> "Ok"]
         ELSE [kind |-> "GcraError", error |-> r.value]

\* check_at lines 103-104: `.await?` then `Ok(result?)`
check_at_return(r) ==
    IF ~r.ok THEN [kind |-> "ShardError"]
    ELSE IF r.value.kind = "Ok" THEN [kind |-> "Ok"]
         ELSE [kind |-> "GcraError", error |-> r.value]

\* ------------------------------------------------------ the keyed store
Remove(seq, x) == SelectSeq(seq, LAMBDA y : y # x)

Touch(seq, x) == Append(Remove(seq, x), x)

CommitPending(k) ==
    \E c \in Callers : callers[c].pc = "committing" /\ callers[c].key = k

\* the shard is running the closures queued behind a load that resolved
Draining(s) ==
    \E k \in Keys : /\ ShardOf(k) = s
                    /\ entries[k].status = "resident"
                    /\ entries[k].waiting # << >>

Held(s) == { k \in Keys : ShardOf(k) = s /\ entries[k].status # "absent" }

\* the resident keys of a shard that may be dropped, least recently used first
Evictable(s) == SelectSeq(lru[s], LAMBDA k : ~CommitPending(k))

\* the shard runs the closure of caller c on the resident entry of key k
Run(c, cl, k, waiting_after) ==
    LET r == check_at_closure(entries[k].entry, rate_limit,
                              cl.arrived_at, cl.cost, clock)
        ref == check_and_modify_at(solo[k], rate_limit,
                                   cl.arrived_at, cl.cost)
    IN  /\ entries' = [entries EXCEPT ![k] =
               [status |-> "resident", entry |-> r.entry,
                waiting |-> waiting_after]]
        /\ callers' = [callers EXCEPT ![c] =
               IF r.commit = "immediately"
               THEN [cl EXCEPT !.pc = "committing", !.value = r.value,
                               !.expected = ref.result,
                               !.commits = @ + 1]
               ELSE [cl EXCEPT !.pc = "done", !.value = r.value,
                               !.expected = ref.result,
                               !.result = check_at_return(Executed(r.value))]]
        /\ executed' = [executed EXCEPT ![k] = Append(@, c)]
        /\ solo' = [solo EXCEPT ![k] = ref.tat]
        /\ lru' = [lru EXCEPT ![ShardOf(k)] = Touch(@, k)]

\* the load of key k starts on behalf of caller c
StartLoad(c, cl, k) ==
    /\ callers' = [callers EXCEPT ![c] =
           [cl EXCEPT !.pc = "loading", !.loads = @ + 1]]
    /\ UNCHANGED << solo >>

\* the store's execute_mut for the request cl of caller c on key k: the
\* key's shard runs the closure on the resident entry, queues it behind a
\* load in progress, or starts the load of an absent key, making room for it
execute_mut(c, cl, k) ==
    LET s == ShardOf(k) IN
    CASE entries[k].status = "resident" ->
              /\ Run(c, cl, k, << >>)
              /\ UNCHANGED << evicted >>
      [] entries[k].status = "loading" ->
              /\ entries' = [entries EXCEPT ![k].waiting = Append(@, c)]
              /\ callers' = [callers EXCEPT ![c] = [cl EXCEPT !.pc = "loading"]]
              /\ UNCHANGED << lru, executed, solo, evicted >>
      [] OTHER ->
              IF Cardinality(Held(s)) < max_data_capacity
              THEN /\ entries' = [entries EXCEPT ![k] =
                          [status |-> "loading", entry |-> DefaultEntry,
                           waiting |-> << c >>]]
                   /\ StartLoad(c, cl, k)
                   /\ UNCHANGED << lru, executed, evicted >>
              ELSE IF Evictable(s) # << >>
              THEN LET victim == Head(Evictable(s)) IN
                   /\ entries' = [entries EXCEPT
                          ![victim] = Absent,
                          ![k] = [status |-> "loading",
                                  entry |-> DefaultEntry,
                                  waiting |-> << c >>]]
                   /\ lru' = [lru EXCEPT ![s] = Remove(@, victim)]
                   /\ executed' = [executed EXCEPT ![victim] = << >>]
                   /\ evicted' = [evicted EXCEPT ![victim] = TRUE]
                   /\ StartLoad(c, cl, k)
              ELSE \* the shard is at capacity
                   /\ callers' = [callers EXCEPT ![c] =
                          [cl EXCEPT !.pc = "done", !.failed = TRUE,
                             !.result = check_at_return(ShardFailed)]]
                   /\ UNCHANGED << entries, lru, executed, solo, evicted >>

\* RateLimiter::check_at: execute_mut hands the request to the key's shard,
\* which accepts the requests in the order of the calls
CheckAt(c, key, cost, arrived_at) ==
    /\ callers[c].pc = "idle"
    \* callers and keys are interchangeable: the callers call in the order of
    \* their numbers, and the first call is on key 1
    /\ c > 1 => callers[c - 1].pc # "idle"
    /\ c = 1 => key = 1
    /\ ~Draining(ShardOf(key))
    /\ tickets' = tickets + 1
    /\ execute_mut(c, [callers[c] EXCEPT !.key = key, !.cost = cost,
                          !.arrived_at = arrived_at, !.ticket = tickets + 1],
                   key)
    /\ UNCHANGED << clock, num_shards, max_data_capacity, upstream_fails,
                    expired >>
    /\ UNCHANGED guard_vars

\* RateLimiter::check: check_at with arrived_at = clock.now()
Check(c, key, cost) == CheckAt(c, key, cost, clock)

\* time passes
Tick ==
    /\ clock < MaxClock
    /\ clock' = clock + 1
    /\ UNCHANGED << num_shards, max_data_capacity, upstream_fails, callers,
                    entries, lru, tickets, executed, solo, evicted, expired >>
    /\ UNCHANGED guard_vars

\* InMemoryUpstream::load: request.resolve(Default::default())
LoadResolve(k) ==
    /\ entries[k].status = "loading"
    /\ entries' = [entries EXCEPT ![k].status = "resident",
                                  ![k].entry = DefaultEntry]
    /\ lru' = [lru EXCEPT ![ShardOf(k)] = Touch(@, k)]
    /\ UNCHANGED << clock, num_shards, max_data_capacity, upstream_fails,
                    callers, tickets, executed, solo, evicted,
                    expired >>
    /\ UNCHANGED guard_vars

\* the upstream rejects the load: every request queued behind it fails
LoadReject(k) ==
    /\ upstream_fails
    /\ entries[k].status = "loading"
    /\ entries' = [entries EXCEPT ![k] = Absent]
    /\ callers' = [c \in Callers |->
           IF callers[c].pc = "loading" /\ callers[c].key = k
           THEN [callers[c] EXCEPT !.pc = "done", !.failed = TRUE,
                                   !.result = check_at_return(ShardFailed)]
           ELSE callers[c]]
    /\ UNCHANGED << clock, num_shards, max_data_capacity, upstream_fails,
                    lru, tickets, executed, solo, evicted, expired >>
    /\ UNCHANGED guard_vars

\* the shard runs the next closure queued behind the load of key k
RunWaiting(k) ==
    /\ entries[k].status = "resident"
    /\ entries[k].waiting # << >>
    /\ Run(Head(entries[k].waiting), callers[Head(entries[k].waiting)], k,
           Tail(entries[k].waiting))
    /\ UNCHANGED << clock, num_shards, max_data_capacity, upstream_fails,
                    tickets, evicted, expired >>
    /\ UNCHANGED guard_vars

\* InMemoryUpstream::commit: request.resolve(); execute_mut returns the value
CommitResolve(c) ==
    /\ callers[c].pc = "committing"
    /\ callers' = [callers EXCEPT ![c] =
           [@ EXCEPT !.pc = "done",
                     !.result = check_at_return(Executed(callers[c].value))]]
    /\ UNCHANGED << clock, num_shards, max_data_capacity, upstream_fails,
                    entries, lru, tickets, executed, solo, evicted,
                    expired >>
    /\ UNCHANGED guard_vars

\* the upstream rejects the commit: execute_mut returns the shard's error
CommitReject(c) ==
    /\ upstream_fails
    /\ callers[c].pc = "committing"
    /\ callers' = [callers EXCEPT ![c] =
           [@ EXCEPT !.pc = "done", !.failed = TRUE,
                     !.result = check_at_return(ShardFailed)]]
    /\ UNCHANGED << clock, num_shards, max_data_capacity, upstream_fails,
                    entries, lru, tickets, executed, solo, evicted,
                    expired >>
    /\ UNCHANGED guard_vars

\* ServiceData::get_expires_at: the store drops an entry past its expires_at
Expire(k) ==
    /\ entries[k].status = "resident"
    /\ entries[k].waiting = << >>
    /\ ~CommitPending(k)
    /\ IsSome(entries[k].entry.expires_at)
    /\ Unwrap(entries[k].entry.expires_at) <= clock
    /\ entries' = [entries EXCEPT ![k] = Absent]
    /\ lru' = [lru EXCEPT ![ShardOf(k)] = Remove(@, k)]
    /\ executed' = [executed EXCEPT ![k] = << >>]
    /\ solo' = [solo EXCEPT ![k] = None]
    /\ expired' = [expired EXCEPT ![k] = TRUE]
    /\ UNCHANGED << clock, num_shards, max_data_capacity, upstream_fails,
                    callers, tickets, evicted >>
    /\ UNCHANGED guard_vars

\* ------------------------------------------------------------ Gcra core
\* calls made on GcraState and RateLimit directly, with any arguments
GcraCosts == 0..MaxGcraCost

\* an instant and a period, in nanoseconds, beyond the 24 bits an f32 holds
F32Instant == 2^24 + 1
F32Period == 2^25

GcraInstants == (0..MaxGcraTime) \cup { F32Instant }

\* the arguments given to RateLimit::new
GcraLimitArgs ==
    { << n, p >> : n \in 0..MaxGcraLimit, p \in 0..MaxGcraPeriod }
        \cup { << 2, F32Period >> }

\* the limits the first calls are made with; RateLimitNew makes the others
GcraRateLimits ==
    { RateLimit_new(a[1], a[2]) :
          a \in { b \in GcraLimitArgs : b[1] > 0 /\ b[2] > 0 } }

\* untouched by the calls on the core
guard_observers == << last, burst, credit, denied, full, recovered >>

\* Some(now) while the state was unset at first and every call since was a
\* check or a reading made with the first RateLimit at a time not earlier
\* than the call before it
mono_after(now) ==
    IF IsSome(call.mono) /\ now >= Unwrap(call.mono)
    THEN Some(now) ELSE None

\* RateLimit::new(resource_limit, period): period / resource_limit panics
\* when resource_limit = 0, and nothing else is checked
RateLimitNew(resource_limit, period) ==
    /\ IF resource_limit = 0
       THEN /\ call' = [NoGcraCall EXCEPT !.op = "new",
                           !.limit = << resource_limit, period >>,
                           !.out = [kind |-> "Panic"]]
            /\ UNCHANGED rate_limit
       ELSE /\ rate_limit' = RateLimit_new(resource_limit, period)
            /\ call' = [NoGcraCall EXCEPT !.op = "new",
                           !.limit = << resource_limit, period >>,
                           !.out = Ok]
    /\ UNCHANGED << state, guard_observers, limiter_vars, window >>

\* the interval of the checks' arrival times and the admitted increments
\* after a check at now
window_after(now, cost) ==
    LET out == check_and_modify_at(state, rate_limit, now, cost) IN
    [lo |-> IF IsSome(window.lo) /\ Unwrap(window.lo) <= now
            THEN window.lo ELSE Some(now),
     hi |-> IF IsSome(window.hi) /\ Unwrap(window.hi) >= now
            THEN window.hi ELSE Some(now),
     sum |-> window.sum + (IF out.result = Ok
                           THEN increment_interval(rate_limit, cost)
                           ELSE 0)]

\* GcraState::check_and_modify_at(rate_limit, now, cost): the state and the
\* record of the call
check_and_modify_at_call(now, cost) ==
    LET out == check_and_modify_at(state, rate_limit, now, cost) IN
    /\ state' = out.tat
    /\ call' = [op |-> "check_and_modify_at", limit |-> << >>,
                now |-> now, cost |-> cost, pre |-> state,
                out |-> out.result,
                \* what remaining_resources returned just before, at now
                rem |-> IF call.op = "remaining_resources" /\ call.now = now
                        THEN Some(call.out) ELSE None,
                \* the check repeats the one that the revert just undid
                undo |-> /\ call.op = "revert_at" /\ call.undo
                         /\ call.now = now /\ call.cost = cost,
                mono |-> mono_after(now)]
    /\ UNCHANGED << rate_limit, guard_observers, limiter_vars >>

\* GcraState::check_and_modify_at(rate_limit, now, cost)
GcraCheckAndModifyAt(now, cost) ==
    /\ check_and_modify_at_call(now, cost)
    /\ UNCHANGED window

\* GcraState::check_and_modify_at(rate_limit, now, cost), one of a sequence
\* of checks whose arrival interval and admitted increments are recorded
RateCheckAndModifyAt(now, cost) ==
    /\ check_and_modify_at_call(now, cost)
    /\ window' = window_after(now, cost)

\* GcraState::remaining_resources(rate_limit, now)
GcraRemainingResources(now) ==
    /\ \E out \in remaining_resources(state, rate_limit, now) :
          call' = [op |-> "remaining_resources", limit |-> << >>,
                   now |-> now, cost |-> 0, pre |-> state, out |-> out,
                   \* asked before and after one admitted check at now
                   rem |-> IF /\ call.op = "check_and_modify_at"
                              /\ call.now = now /\ call.out = Ok
                              /\ IsSome(call.rem)
                           THEN Some([before |-> Unwrap(call.rem),
                                      cost |-> call.cost])
                           ELSE None,
                   undo |-> FALSE,
                   mono |-> mono_after(now)]
    /\ UNCHANGED << rate_limit, state, guard_observers, limiter_vars,
                    window >>

\* GcraState::revert_at(rate_limit, now, cost), called to give back budget
\* that the check admitted just before it consumed
GcraRevertAt(now, cost) ==
    /\ call.op = "check_and_modify_at" /\ call.out = Ok
    /\ \E out \in revert_at(state, rate_limit, now, cost) :
          /\ state' = out.tat
          /\ call' = [op |-> "revert_at", limit |-> << >>,
                      now |-> now, cost |-> cost, pre |-> state,
                      out |-> out.result, rem |-> None,
                      \* the revert undoes the check admitted just before
                      undo |-> /\ call.op = "check_and_modify_at"
                               /\ call.out = Ok
                               /\ call.now = now /\ call.cost = cost,
                      mono |-> None]
    /\ UNCHANGED << rate_limit, guard_observers, limiter_vars, window >>

\* --------------------------------------------------------- specifications
\* the guard alone: one owner calling check_and_modify in sequence
Init ==
    /\ InitGuard
    /\ LimiterIdle
    /\ num_shards = 1
    /\ max_data_capacity = 1
    /\ upstream_fails = FALSE

Next ==
    /\ \E arrived_at \in Instants, cost \in Costs :
           GuardCheckAndModify(arrived_at, cost)
    /\ UNCHANGED limiter_vars

Spec == Init /\ [][Next]_vars

\* the limiter: concurrent callers, every shard count and capacity
InitLimiter ==
    /\ rate_limit \in LimiterRateLimits
    /\ GuardIdle
    /\ LimiterIdle
    /\ num_shards \in 1..MaxShards
    /\ max_data_capacity \in 1..MaxCapacity
    /\ upstream_fails = FALSE

NextLimiter ==
    \/ Tick
    \/ \E c \in Callers, key \in Keys, cost \in LimiterCosts :
           Check(c, key, cost)
    \/ \E c \in Callers, key \in Keys, cost \in LimiterCosts,
          arrived_at \in ClockInstants :
           CheckAt(c, key, cost, arrived_at)
    \/ \E k \in Keys : LoadResolve(k)
    \/ \E k \in Keys : RunWaiting(k)
    \/ \E c \in Callers : CommitResolve(c)
    \/ \E k \in Keys : Expire(k)

SpecLimiter == InitLimiter /\ [][NextLimiter]_vars

\* the limiter over an upstream that may reject loads and commits
InitFallible ==
    /\ rate_limit \in LimiterRateLimits
    /\ GuardIdle
    /\ LimiterIdle
    /\ num_shards = 1
    /\ max_data_capacity \in 1..MaxCapacity
    /\ upstream_fails = TRUE

NextFallible ==
    \/ NextLimiter
    \/ \E k \in Keys : LoadReject(k)
    \/ \E c \in Callers : CommitReject(c)

SpecFallible == InitFallible /\ [][NextFallible]_vars

\* the core alone: any sequence of calls with any arguments
InitGcra ==
    /\ rate_limit \in GcraRateLimits
    /\ state \in {None} \cup { Some(t) : t \in GcraInstants }
    /\ last = NoCall
    /\ burst = NoBurst
    /\ credit = NoCredit
    /\ denied = [c \in Costs |-> None]
    /\ full = None
    /\ recovered = None
    /\ call = [NoGcraCall EXCEPT
                  !.mono = IF state = None THEN Some(0) ELSE None]
    /\ window = NoWindow
    /\ LimiterIdle
    /\ num_shards = 1
    /\ max_data_capacity = 1
    /\ upstream_fails = FALSE

NextGcra ==
    \/ \E a \in GcraLimitArgs : RateLimitNew(a[1], a[2])
    \/ \E now \in GcraInstants, cost \in GcraCosts :
           GcraCheckAndModifyAt(now, cost)
    \/ \E now \in GcraInstants : GcraRemainingResources(now)
    \/ \E now \in GcraInstants, cost \in GcraCosts : GcraRevertAt(now, cost)

SpecGcra == InitGcra /\ [][NextGcra]_vars

\* one state under one RateLimit: checks only, arriving in any order
NextRate ==
    \E now \in GcraInstants, cost \in GcraCosts :
        RateCheckAndModifyAt(now, cost)

SpecRate == InitGcra /\ [][NextRate]_vars

\* ================================================================ claims

\* C1 (as claimed): from the unset state, each of the first resource_limit
\* unit-cost checks made at one instant t0 is admitted, and the next one at
\* t0 is denied with DeniedUntil, next_allowed_at >= t0 + emission_interval.
C1_BudgetExactness ==
    IsSome(burst.t0) =>
        /\ burst.n <= rate_limit.resource_limit => last.result.kind = "Ok"
        /\ burst.n = rate_limit.resource_limit + 1 =>
              /\ last.result.kind = "DeniedUntil"
              /\ last.result.next_allowed_at
                    >= Unwrap(burst.t0) + rate_limit.emission_interval

\* C3: a check that returns DeniedUntil or DeniedIndefinitely leaves tat
\* exactly as it was before the call (unset stays unset).
C3_DeniedLeavesState ==
    IsDenied(last.result) => state = last.pre

C3_Witness ==
    /\ last.result.kind = "DeniedUntil"
    /\ IsSome(last.pre)
    /\ last.cost >= 1

\* C4: a check whose cost * emission_interval exceeds period returns
\* DeniedIndefinitely whatever the prior state and the arrival time are,
\* and the state is unchanged.
C4_IndefiniteDenial ==
    (/\ last.result.kind # "NoResult"
     /\ last.cost * rate_limit.emission_interval > rate_limit.period)
    => /\ last.result.kind = "DeniedIndefinitely"
       /\ state = last.pre

C4_Witness ==
    /\ last.result.kind = "DeniedIndefinitely"
    /\ IsSome(last.pre)
    /\ Unwrap(last.pre) > last.arrived_at

\* C5 (as claimed): once the bucket is fully consumed at t0, a unit-cost
\* check at t0 + emission_interval is admitted, a second one at that instant
\* is denied, and one at t0 + emission_interval - 1 is denied.
C5_LeakRecovery ==
    /\ (/\ IsSome(last.full_before)
        /\ last.cost = 1
        /\ last.arrived_at
              = Unwrap(last.full_before) + rate_limit.emission_interval)
       => last.result.kind = "Ok"
    /\ (/\ IsSome(last.full_before)
        /\ last.cost = 1
        /\ last.arrived_at
              = Unwrap(last.full_before) + rate_limit.emission_interval - 1)
       => IsDenied(last.result)
    /\ (/\ last.recovered_before = Some(last.arrived_at)
        /\ last.cost = 1)
       => IsDenied(last.result)

\* C6: after DeniedUntil{next_allowed_at} for cost c with no admission in
\* between, a check of cost c arriving after next_allowed_at is admitted.
C6_Retryable ==
    (/\ IsSome(last.denied_before)
     /\ last.arrived_at > Unwrap(last.denied_before))
    => last.result.kind = "Ok"

C6_Witness ==
    /\ IsSome(last.denied_before)
    /\ last.arrived_at > Unwrap(last.denied_before)
    /\ last.cost >= 1
    /\ last.result.kind = "Ok"

\* ------------------------------------------------- claims on the limiter
\* every call made so far is a unit-cost check on key 1
UnitChecksOnOneKey ==
    \A c \in Callers :
        callers[c].pc # "idle" => callers[c].key = 1 /\ callers[c].cost = 1

\* the admitted checks whose arrival times lie in the window [w, w + period)
AdmittedIn(w) ==
    { c \in Callers : /\ callers[c].value.kind = "Ok"
                      /\ w <= callers[c].arrived_at
                      /\ callers[c].arrived_at < w + rate_limit.period }

\* C2 (as claimed): concurrent unit-cost checks on one key never admit more
\* than resource_limit checks whose arrival times lie in a window of length
\* period.
C2_SlidingWindow ==
    UnitChecksOnOneKey =>
        \A w \in ClockInstants :
            Cardinality(AdmittedIn(w)) <= rate_limit.resource_limit

\* C2 (amended): while the key's entry stays in the store, the admitted
\* unit-cost checks of a window of length period, times emission_interval,
\* stay below twice the period.
C2_SlidingWindowAmended ==
    (UnitChecksOnOneKey /\ ~expired[1] /\ ~evicted[1]) =>
        \A w \in ClockInstants :
            Cardinality(AdmittedIn(w)) * rate_limit.emission_interval
                < 2 * rate_limit.period

C2_Witness ==
    /\ UnitChecksOnOneKey
    /\ ~expired[1] /\ ~evicted[1]
    /\ Cardinality(AdmittedIn(0)) > rate_limit.resource_limit
    /\ rate_limit.emission_interval > 0
    /\ \E c, d \in Callers :
          c # d /\ callers[c].pc = "committing" /\ callers[d].pc = "committing"

\* check_and_modify_at applied to the callers of cs one at a time
RECURSIVE Serial(_, _)
Serial(cs, tat) ==
    IF cs = << >> THEN [tat |-> tat, ok |-> TRUE]
    ELSE LET c == Head(cs)
             out == check_and_modify_at(tat, rate_limit,
                        callers[c].arrived_at, callers[c].cost)
             rest == Serial(Tail(cs), out.tat)
         IN  [tat |-> rest.tat,
              ok |-> rest.ok /\ callers[c].value = out.result]

\* C7: the closures of concurrent calls on one key run one at a time in the
\* order the shard accepted the calls, each exactly once, and the values
\* returned and the entry's tat are those of check_and_modify_at applied to
\* the entry one call at a time in that order.
C7_PerKeySerial ==
    /\ \A k \in Keys :
          /\ Serial(executed[k], None).ok
          /\ entries[k].status = "resident" =>
                entries[k].entry.gcra_state = Serial(executed[k], None).tat
          /\ \A i, j \in 1..Len(executed[k]) :
                i < j => callers[executed[k][i]].ticket
                            < callers[executed[k][j]].ticket
    /\ \A c \in Callers :
          (/\ callers[c].value # NoResult
           /\ ~evicted[callers[c].key]
           /\ ~expired[callers[c].key])
          => \E i \in 1..Len(executed[callers[c].key]) :
                executed[callers[c].key][i] = c

C7_Witness ==
    \E k \in Keys :
        /\ Len(executed[k]) >= 2
        /\ callers[executed[k][1]].pc = "committing"
        /\ callers[executed[k][2]].value.kind = "DeniedUntil"
        /\ callers[executed[k][2]].loads = 0

\* C8 (as claimed): every check on a key returns what it returns in the run
\* that contains only the checks on that key.
C8_KeyIndependence ==
    \A c \in Callers :
        callers[c].value # NoResult => callers[c].value = callers[c].expected

\* C9: check_at asks for a commit exactly when the decision is admit; a
\* denied check asks for none and returns without waiting for one.
C9_CommitIffAdmitted ==
    \A c \in Callers :
        /\ callers[c].value.kind = "Ok" => callers[c].commits = 1
        /\ callers[c].value.kind # "Ok" => callers[c].commits = 0
        /\ IsDenied(callers[c].value) => callers[c].pc = "done"
        /\ callers[c].pc = "committing" => callers[c].value.kind = "Ok"

C9_Witness ==
    \E c, d \in Callers :
        /\ callers[c].value.kind = "Ok"
        /\ callers[c].pc = "committing"
        /\ callers[d].value.kind = "DeniedUntil"
        /\ callers[d].pc = "done"
        /\ callers[d].commits = 0

\* C10: a load or commit the store fails makes check return the shard error,
\* never Ok and never a GcraError, and the load or commit is not issued again.
C10_InfrastructureErrors ==
    \A c \in Callers :
        /\ callers[c].failed =>
              /\ callers[c].pc = "done"
              /\ callers[c].result.kind = "ShardError"
        /\ callers[c].result.kind = "ShardError" => callers[c].failed
        /\ callers[c].result.kind = "GcraError" =>
              IsDenied(callers[c].result.error)
        /\ callers[c].loads <= 1
        /\ callers[c].commits <= 1

C10_Witness ==
    \E c, d \in Callers :
        /\ callers[c].failed /\ callers[c].commits = 1
        /\ callers[d].failed /\ callers[d].commits = 0
        /\ callers[d].loads = 1

\* ------------------------------------------------- claims on the core
\* C11 (as claimed): remaining_resources returns a value in
\* 0..resource_limit for every state, RateLimit and now, 0 when more than
\* resource_limit is consumed, and resource_limit when tat is unset or
\* tat <= now.
C11_RemainingBounded ==
    call.op = "remaining_resources" =>
        /\ call.out.kind = "Remaining"
        /\ call.out.value \in 0..rate_limit.resource_limit
        /\ (~IsSome(call.pre) \/ Unwrap(call.pre) <= call.now)
              => call.out.value = rate_limit.resource_limit

\* C12 (as claimed): remaining_resources(limit, now) right after an
\* admitted check_and_modify_at(limit, now, c) equals its value right
\* before that check minus c.
C12_RemainingTracksAdmission ==
    (call.op = "remaining_resources" /\ IsSome(call.rem)) =>
        /\ call.out.kind = "Remaining"
        /\ Unwrap(call.rem).before.kind = "Remaining"
        /\ call.out.value =
              Unwrap(call.rem).before.value - Unwrap(call.rem).cost

\* C13 (as claimed): after a check of cost c admitted at t, revert_at(t, c)
\* followed by check_and_modify_at(t, c) is admitted again.
C13_RevertInverse ==
    (call.op = "check_and_modify_at" /\ call.undo) => call.out = Ok

\* C14 (as claimed): RateLimit::new fails when resource_limit = 0 and when
\* period = 0, so no RateLimit has a zero limit or a zero period.
C14_ConstructionValidates ==
    /\ (call.op = "new" /\ (call.limit[1] = 0 \/ call.limit[2] = 0))
          => call.out.kind = "Panic"
    /\ rate_limit.resource_limit > 0
    /\ rate_limit.period > 0

\* C15 (as claimed): a check with cost > resource_limit returns
\* DeniedIndefinitely carrying the requested cost and the RateLimit used,
\* for every RateLimit and every state.
C15_CostAboveLimit ==
    (call.op = "check_and_modify_at" /\ call.cost > rate_limit.resource_limit)
        => call.out = DeniedIndefinitely(call.cost, rate_limit)

\* the exact ceil(a / b), b > 0
CeilDiv(a, b) == (a + b - 1) \div b

\* C16 (as claimed): whenever tat is set and tat >= now,
\* remaining_resources(limit, now) =
\* resource_limit - ceil((tat - now) * resource_limit / period).
C16_RemainingRoundsUp ==
    (/\ call.op = "remaining_resources"
     /\ IsSome(call.pre) /\ Unwrap(call.pre) >= call.now
     /\ rate_limit.period > 0)
    => call.out =
          Remaining(rate_limit.resource_limit
                      - CeilDiv((Unwrap(call.pre) - call.now)
                                   * rate_limit.resource_limit,
                                rate_limit.period))

\* C17: with increment = emission_interval * cost <= period, the check is
\* admitted iff tat is unset, or tat < now, or tat + increment - period < now;
\* an admitted check sets tat to max(tat, now) + increment (now + increment
\* when unset); any other returns DeniedUntil(tat + increment - period) and
\* leaves tat alone.
C17_DecisionFunction ==
    LET increment == rate_limit.emission_interval * call.cost
        tat == Unwrap(call.pre)
        admit == \/ ~IsSome(call.pre)
                 \/ tat < call.now
                 \/ tat + increment - rate_limit.period < call.now
    IN  (call.op = "check_and_modify_at" /\ increment <= rate_limit.period)
        => IF admit
           THEN /\ call.out = Ok
                /\ state = Some((IF IsSome(call.pre) /\ tat > call.now
                                 THEN tat ELSE call.now) + increment)
           ELSE /\ call.out
                     = DeniedUntil(tat + increment - rate_limit.period)
                /\ state = call.pre

C17_Witness ==
    /\ call.op = "check_and_modify_at"
    /\ call.out.kind = "Ok"
    /\ IsSome(call.pre) /\ Unwrap(call.pre) > call.now
    /\ call.cost >= 2
    /\ rate_limit.emission_interval > 0

\* C18: across any sequence of check_and_modify_at calls, with any costs,
\* RateLimits and arrival times in any order, a set tat never becomes unset
\* and never decreases, and tat changes only in an admitted call.
C18_TatMonotone ==
    call.op = "check_and_modify_at" =>
        /\ IsSome(call.pre) =>
              /\ IsSome(state)
              /\ Unwrap(state) >= Unwrap(call.pre)
        /\ state # call.pre => call.out = Ok

C18_Witness ==
    /\ call.op = "check_and_modify_at"
    /\ call.out.kind = "DeniedUntil"
    /\ call.now < Unwrap(call.pre)
    /\ call.cost >= 1
    /\ state = call.pre

\* the last call was made on a state whose tat is strictly before now
OnDrained ==
    IsSome(call.pre) /\ Unwrap(call.pre) < call.now

\* C19 (as claimed): on a state whose tat is strictly before now,
\* check_and_modify_at returns the same outcome and leaves the same tat as
\* the same call on an unset state, and remaining_resources returns the
\* same value for both.
C19_DrainedEqualsUnset ==
    /\ (call.op = "check_and_modify_at" /\ OnDrained) =>
          LET unset == check_and_modify_at(None, rate_limit,
                                           call.now, call.cost)
          IN  call.out = unset.result /\ state = unset.tat
    /\ (call.op = "remaining_resources" /\ OnDrained) =>
          call.out \in remaining_resources(None, rate_limit, call.now)

\* C19 (amended): the outcome is the same, an admitted call leaves the same
\* tat, a denied call leaves each of the two states as it was, and
\* remaining_resources returns the same value for both.
C19_DrainedEqualsUnsetAmended ==
    /\ (call.op = "check_and_modify_at" /\ OnDrained) =>
          LET unset == check_and_modify_at(None, rate_limit,
                                           call.now, call.cost)
          IN  /\ call.out = unset.result
              /\ call.out = Ok => state = unset.tat
              /\ call.out # Ok => state = call.pre /\ unset.tat = None
    /\ (call.op = "remaining_resources" /\ OnDrained) =>
          call.out \in remaining_resources(None, rate_limit, call.now)

C19_Witness ==
    /\ call.op = "check_and_modify_at"
    /\ OnDrained
    /\ call.out = Ok
    /\ call.cost >= 1
    /\ rate_limit.emission_interval > 0
    /\ state = Some(call.now + rate_limit.emission_interval * call.cost)

\* C20 (as claimed): dropping a key's entry that has no pending commit and
\* re-creating it on the next access never changes whether a later check on
\* the key is admitted, compared with the run without the eviction.
C20_EvictionSafe ==
    \A c \in Callers :
        (callers[c].value # NoResult /\ evicted[callers[c].key])
        => (callers[c].value.kind = "Ok"
               <=> callers[c].expected.kind = "Ok")

C23_BoundedDebt ==
    /\ (call.op = "check_and_modify_at" /\ call.out = Ok) =>
          /\ IsSome(state)
          /\ call.now + rate_limit.emission_interval * call.cost
                <= Unwrap(state)
          /\ Unwrap(state) <= call.now + rate_limit.period
    /\ (IsSome(call.mono) /\ IsSome(state)) =>
          Unwrap(state) - Unwrap(call.mono) <= rate_limit.period

C23_Witness ==
    /\ call.op = "check_and_modify_at"
    /\ call.out = Ok
    /\ IsSome(call.pre) /\ Unwrap(call.pre) > call.now
    /\ IsSome(call.mono) /\ call.now > 0
    /\ call.cost >= 1
    /\ Unwrap(state) + 1 = call.now + rate_limit.period

\* C24: for checks on one state with one RateLimit whose arrival times
\* all lie in [a, b], the sum of cost * emission_interval over the admitted
\* ones is at most (b - a) + period, whatever the state was before and
\* whatever order the checks arrive in.
C24_LongRunRate ==
    IsSome(window.lo) =>
        window.sum
            <= (Unwrap(window.hi) - Unwrap(window.lo)) + rate_limit.period

C24_Witness ==
    /\ IsSome(window.lo)
    /\ Unwrap(window.hi) > Unwrap(window.lo)
    /\ call.now < Unwrap(window.hi)
    /\ call.out = Ok /\ call.cost >= 1
    /\ window.sum + 1
          = (Unwrap(window.hi) - Unwrap(window.lo)) + rate_limit.period

\* ------------------------------------------------ claims on the guard
\* C25: a check denied at time a with DeniedUntil{next_allowed_at = n} has
\* n >= a, and with no admission in between every repeated check of the
\* same cost arriving before n is denied again with the same n.
C25_NextAllowedStable ==
    /\ last.result.kind = "DeniedUntil" =>
          last.result.next_allowed_at >= last.arrived_at
    /\ (/\ IsSome(last.denied_before)
        /\ last.arrived_at < Unwrap(last.denied_before))
       => last.result = DeniedUntil(Unwrap(last.denied_before))

C25_Witness ==
    /\ IsSome(last.denied_before)
    /\ last.arrived_at < Unwrap(last.denied_before)
    /\ last.arrived_at > 0
    /\ last.cost >= 2
    /\ last.result = DeniedUntil(Unwrap(last.denied_before))

\* C26 (as claimed): on a state reached through checks under one
\* RateLimit, a check of cost c at now with 1 <= c <=
\* remaining_resources(limit, now) is admitted.
C26_RemainingSpendable ==
    (/\ call.op = "check_and_modify_at"
     /\ IsSome(call.mono)
     /\ IsSome(call.rem)
     /\ Unwrap(call.rem).kind = "Remaining"
     /\ 1 <= call.cost
     /\ call.cost <= Unwrap(call.rem).value)
    => call.out = Ok

====
